---- MODULE Spec2Model ----
(***************************************************************************)
(* Model of the hono-todo-app task management API: the account routes     *)
(* (routes/auth.ts), the credential codec (utils/jwt.ts), the access gate *)
(* (middlewares/authMiddleware.ts) and the task controller                *)
(* (controllers/taskController, kept as unnamed/part_000) over the two    *)
(* tables of db/schema.ts.  Every `await` on the store is a separate      *)
(* step, so concurrent requests interleave between the queries of one     *)
(* handler exactly where the event loop lets them.                        *)
(***************************************************************************)
EXTENDS Integers, Sequences, FiniteSets, TLC

VARIABLES
    users,   \* rows of table users
    tasks,   \* rows of table tasks
    clock,   \* wall clock, in days
    tok,     \* per client: the token returned by its last successful login
    req,     \* per client: the request in flight (operation, inputs, position)
    out,     \* the last exchange completed: the client, its request, the response
    issued   \* number of task ids generated so far

vars == <<users, tasks, clock, tok, req, out, issued>>

(***************************** bounds **************************************)
MaxClock == 8
MaxTasks == 2

Procs == {"p1", "p2"}
UserIds == {"u1", "u2"}
TaskIds == <<"t1", "t2", "t3", "t4">>
Salts == {"s1"}

\* a nullable column or an optional value: NULL, or Some(v)
NULL == <<>>
Some(v) == <<v>>

(************************** db/schema.ts ***********************************)
statusEnum == {"pending", "in-progress", "completed"}

\* the users table without unique() on email
NoUniqueConstraint(email) == FALSE

\* unique() on users.email: an insert of an email already present is refused
UniqueEmailViolation(email) == \E u \in users : u.email = email

(************************** utils/jwt.ts ***********************************)
JWT_SECRET == "JWT_SECRET"
Window == 7

Sign(payload, secret) == [key |-> secret, over |-> payload]

\* a token as the string it is on the wire: its dot-separated segments, the
\* claims of the payload segment and the signature segment
EmptyToken == [segments |-> 0, payload |-> NULL, sig |-> NULL]
MalformedToken == [segments |-> 1, payload |-> NULL, sig |-> NULL]

jwtSign(payload, secret, now) ==
    LET claims == payload @@ [iat |-> now, exp |-> now + Window]
    IN  [segments |-> 3, payload |-> claims, sig |-> Sign(claims, secret)]

generateToken(payload, now) == jwtSign(payload, JWT_SECRET, now)

\* jwt.verify with ignoreExpiration
verifyTokenIgnoreExpiration(token, now) ==
    IF token.segments # 3
    THEN [threw |-> TRUE, error |-> "jwt malformed", value |-> NULL]
    ELSE IF token.sig # [key |-> JWT_SECRET, over |-> token.payload]
    THEN [threw |-> TRUE, error |-> "invalid signature", value |-> NULL]
    ELSE [threw |-> FALSE, error |-> "", value |-> token.payload]

\* jwt.decode in place of jwt.verify: the signature is not checked
verifyTokenDecodeOnly(token, now) ==
    IF token.segments # 3
    THEN [threw |-> TRUE, error |-> "jwt malformed", value |-> NULL]
    ELSE IF now >= token.payload.exp
    THEN [threw |-> TRUE, error |-> "jwt expired", value |-> NULL]
    ELSE [threw |-> FALSE, error |-> "", value |-> token.payload]

\* jwt.verify throws on a malformed token, on a signature that does not match
\* and on an expired token (clock >= exp); otherwise it returns the claims
verifyToken(token, now) ==
    IF token.segments # 3
    THEN [threw |-> TRUE, error |-> "jwt malformed", value |-> NULL]
    ELSE IF token.sig # Sign(token.payload, JWT_SECRET)
    THEN [threw |-> TRUE, error |-> "invalid signature", value |-> NULL]
    ELSE IF now >= token.payload.exp
    THEN [threw |-> TRUE, error |-> "jwt expired", value |-> NULL]
    ELSE [threw |-> FALSE, error |-> "", value |-> token.payload]

(******************** middlewares/authMiddleware.ts ************************)
NoHeader == [present |-> FALSE, prefix |-> "", rest |-> EmptyToken]
Bearer(token) == [present |-> TRUE, prefix |-> "Bearer ", rest |-> token]

\* the userId of a request the gate has bound none to
NoUser == ""

Unauthorized(msg) == [next |-> FALSE, status |-> 401, message |-> msg, userId |-> NoUser]

Truthy(payload, field) == field \in DOMAIN payload /\ payload[field] # ""

\* the gate binding the email claim in place of userId
authMiddlewareBindsEmail(authHeader, now) ==
    IF ~authHeader.present \/ authHeader.prefix # "Bearer "
    THEN Unauthorized("Authorization header missing or invalid")
    ELSE IF authHeader.rest.segments = 0
    THEN Unauthorized("Token is required")
    ELSE LET decoded == verifyToken(authHeader.rest, now)
         IN  IF decoded.threw
             THEN Unauthorized("Authentication failed")
             ELSE IF ~Truthy(decoded.value, "userId")
             THEN Unauthorized("Invalid or expired token")
             ELSE [next |-> TRUE, status |-> 0, message |-> "",
                   userId |-> decoded.value.email]

authMiddleware(authHeader, now) ==
    IF ~authHeader.present \/ authHeader.prefix # "Bearer "
    THEN Unauthorized("Authorization header missing or invalid")
    ELSE IF authHeader.rest.segments = 0
    THEN Unauthorized("Token is required")
    ELSE LET decoded == verifyToken(authHeader.rest, now)
         IN  IF decoded.threw
             THEN Unauthorized("Authentication failed")
             ELSE IF ~Truthy(decoded.value, "userId")
             THEN Unauthorized("Invalid or expired token")
             ELSE [next |-> TRUE, status |-> 0, message |-> "",
                   userId |-> decoded.value.userId]

(***************************** responses ***********************************)
Response(status, message, data, handler) ==
    [status |-> status, message |-> message, data |-> data, handler |-> handler]

NoResponse == Response(0, "", NULL, "none")
Idle == [op |-> "none", pc |-> "idle"]
Ready(p) == req[p] = Idle
NoExchange == [client |-> "", req |-> Idle, resp |-> NoResponse]

\* the response goes out and the request is over
Finish(p, r, answer) ==
    /\ req' = [req EXCEPT ![p] = Idle]
    /\ out' = [client |-> p, req |-> [f \in (DOMAIN r) \ {"pc"} |-> r[f]], resp |-> answer]

(**************************** routes/auth.ts *******************************)
HasAt(s) == \E i \in 2 .. (Len(s) - 1) : SubSeq(s, i, i) = "@"

\* registerSchema.safeParse: email must be an address, password has >= 6 chars
registerSchema(body) == HasAt(body.email) /\ Len(body.password) >= 6

bcryptHash(password, salt) == [salt |-> salt, digest |-> <<salt, password>>]
bcryptCompare(password, hash) == hash.digest = <<hash.salt, password>>

RegisterBodies ==
    [email : {"a@x.com", "b@x.com", "nobody"}, password : {"secret1", "secret2", "short"}]

\* POST /auth/register up to the existence check (auth.ts 22-36)
RegisterCheck(p, body) ==
    /\ Ready(p)
    /\ LET r == [op |-> "register", body |-> body]
       IN  IF ~registerSchema(body)
           THEN Finish(p, r, Response(400, "Invalid input", NULL, "register"))
           ELSE IF \E u \in users : u.email = body.email
           THEN Finish(p, r, Response(409, "User already exists", NULL, "register"))
           ELSE /\ req' = [req EXCEPT ![p] = r @@ [pc |-> "register_insert"]]
                /\ UNCHANGED out
    /\ UNCHANGED <<users, tasks, clock, tok, issued>>

\* POST /auth/register from the hash to the answer (auth.ts 39-46); a refused
\* insert throws out of the handler, which the framework answers with 500
RegisterInsert(p) ==
    /\ req[p].pc = "register_insert"
    /\ LET body == req[p].body
       IN  IF UniqueEmailViolation(body.email)
           THEN /\ Finish(p, req[p], Response(500, "Internal Server Error", NULL, "register"))
                /\ UNCHANGED users
           ELSE \E id \in UserIds \ {u.id : u \in users}, salt \in Salts :
                  /\ users' = users \cup
                        {[id |-> id, email |-> body.email,
                          password |-> bcryptHash(body.password, salt),
                          createdAt |-> clock]}
                  /\ Finish(p, req[p], Response(200, "User registered successfully", NULL, "register"))
    /\ UNCHANGED <<tasks, clock, tok, issued>>

\* POST /auth/login (auth.ts 51-81)
Login(p, body) ==
    /\ Ready(p)
    /\ LET r == [op |-> "login", body |-> body]
           existing == {u \in users : u.email = body.email}
       IN  IF ~registerSchema(body)
           THEN Finish(p, r, Response(400, "Invalid input", NULL, "login")) /\ UNCHANGED tok
           ELSE IF existing = {}
           THEN Finish(p, r, Response(404, "User not found", NULL, "login")) /\ UNCHANGED tok
           ELSE LET user == CHOOSE u \in existing : TRUE
                IN  IF ~bcryptCompare(body.password, user.password)
                    THEN Finish(p, r, Response(401, "Incorrect password", NULL, "login"))
                         /\ UNCHANGED tok
                    ELSE LET token == generateToken([userId |-> user.id, email |-> user.email], clock)
                         IN  /\ Finish(p, r, Response(200, "Login successful", token, "login"))
                             /\ tok' = [tok EXCEPT ![p] = token]
    /\ UNCHANGED <<users, tasks, clock, issued>>

(********************** controllers/taskController *************************)
TaskFields == {"title", "description", "dueDate", "status"}

Digits == "0123456789"
Digit(c) == (CHOOSE i \in 1 .. 10 : SubSeq(Digits, i, i) = c) - 1

\* z.string().datetime(): an ISO timestamp in UTC, YYYY-MM-DDTHH:MM:SSZ
IsDatetime(s) ==
    /\ Len(s) = 20
    /\ SubSeq(s, 5, 5) = "-" /\ SubSeq(s, 8, 8) = "-"
    /\ SubSeq(s, 11, 11) = "T" /\ SubSeq(s, 20, 20) = "Z"

\* new Date(s), to the day: the day of the month of the timestamp
Date(s) == Digit(SubSeq(s, 9, 9)) * 10 + Digit(SubSeq(s, 10, 10))

\* the schema with .passthrough(): unknown keys are kept
StripNothing(body) == body

\* z.object drops the keys the schema does not name
Strip(body) == [f \in (DOMAIN body) \cap TaskFields |-> body[f]]

Shape(body) ==
    /\ "title" \in DOMAIN body => Len(body.title) >= 1
    /\ "dueDate" \in DOMAIN body => IsDatetime(body.dueDate)
    /\ "status" \in DOMAIN body => body.status \in statusEnum

createTaskSchema(body) == "title" \in DOMAIN body /\ Shape(body)
updateTaskSchema(body) == Shape(body)

\* the lookup by id alone, without the owner
OwnedByAnyone(userId, taskId) == {t \in tasks : t.id = taskId}

Owned(userId, taskId) == {t \in tasks : t.id = taskId /\ t.userId = userId}

TaskRequest(op, hdr, gate) ==
    [op |-> op, hdr |-> hdr, at |-> clock, userId |-> gate.userId]

\* the gate answered; no handler runs
Rejected(p, r, gate) == Finish(p, r, Response(gate.status, gate.message, NULL, "none"))

\* the row db.insert(tasks).values(...).returning() stores: id and createdAt
\* are the column defaults
InsertValues(id, userId, validatedData, now) ==
    [id |-> id,
     userId |-> userId,
     title |-> validatedData.title,
     description |-> IF "description" \in DOMAIN validatedData
                     THEN Some(validatedData.description) ELSE NULL,
     dueDate |-> IF "dueDate" \in DOMAIN validatedData
                 THEN Some(Date(validatedData.dueDate)) ELSE NULL,
     status |-> IF "status" \in DOMAIN validatedData
                THEN validatedData.status ELSE "pending",
     createdAt |-> now]

\* POST /tasks
createTask(p, hdr, body) ==
    /\ Ready(p)
    /\ LET gate == authMiddleware(hdr, clock)
           r == TaskRequest("createTask", hdr, gate) @@ [body |-> body]
       IN  IF ~gate.next
           THEN Rejected(p, r, gate) /\ UNCHANGED <<tasks, issued>>
           ELSE IF ~createTaskSchema(body)
           THEN /\ Finish(p, r, Response(400, "Validation error", NULL, "createTask"))
                /\ UNCHANGED <<tasks, issued>>
           ELSE IF ~\E u \in users : u.id = gate.userId
           THEN /\ Finish(p, r, Response(500, "Internal server error", NULL, "createTask"))
                /\ UNCHANGED <<tasks, issued>>
           ELSE LET newTask == InsertValues(TaskIds[issued + 1], gate.userId, Strip(body), clock)
                IN  /\ issued < MaxTasks
                    /\ tasks' = tasks \cup {newTask}
                    /\ issued' = issued + 1
                    /\ Finish(p, r, Response(201, "Task created successfully", newTask, "createTask"))
    /\ UNCHANGED <<users, clock, tok>>

\* GET /tasks/:id
getTaskById(p, hdr, taskId) ==
    /\ Ready(p)
    /\ LET gate == authMiddleware(hdr, clock)
           r == TaskRequest("getTaskById", hdr, gate) @@ [taskId |-> taskId]
           task == Owned(gate.userId, taskId)
       IN  IF ~gate.next
           THEN Rejected(p, r, gate)
           ELSE IF task = {}
           THEN Finish(p, r, Response(404, "Task not found", NULL, "getTaskById"))
           ELSE Finish(p, r, Response(200, "", CHOOSE t \in task : TRUE, "getTaskById"))
    /\ UNCHANGED <<users, tasks, clock, tok, issued>>

\* PUT /tasks/:id up to the existence check
updateTaskCheck(p, hdr, taskId, body) ==
    /\ Ready(p)
    /\ LET gate == authMiddleware(hdr, clock)
           r == TaskRequest("updateTask", hdr, gate) @@ [taskId |-> taskId, body |-> body]
       IN  IF ~gate.next
           THEN Rejected(p, r, gate)
           ELSE IF ~updateTaskSchema(body)
           THEN Finish(p, r, Response(400, "Validation error", NULL, "updateTask"))
           ELSE IF Owned(gate.userId, taskId) = {}
           THEN Finish(p, r, Response(404, "Task not found", NULL, "updateTask"))
           ELSE /\ req' = [req EXCEPT ![p] = r @@ [pc |-> "update_write"]]
                /\ UNCHANGED out
    /\ UNCHANGED <<users, tasks, clock, tok, issued>>

\* the columns .set() writes: the validated fields, dueDate as a Date; a key
\* whose value is undefined is not written
SetValues(validatedData) ==
    [f \in DOMAIN validatedData |->
        IF f = "dueDate" THEN Some(Date(validatedData.dueDate))
        ELSE IF f = "description" THEN Some(validatedData.description)
        ELSE validatedData[f]]

ApplySet(t, set) == [f \in DOMAIN t |-> IF f \in DOMAIN set THEN set[f] ELSE t[f]]

\* PUT /tasks/:id, the UPDATE ... RETURNING and the answer
updateTaskWrite(p) ==
    /\ req[p].pc = "update_write"
    /\ LET set == SetValues(Strip(req[p].body))
           hit == Owned(req[p].userId, req[p].taskId)
           updatedTask == {ApplySet(t, set) : t \in hit}
       IN  IF DOMAIN set = {}
           THEN /\ Finish(p, req[p], Response(500, "Internal server error", NULL, "updateTask"))
                /\ UNCHANGED tasks
           ELSE /\ tasks' = (tasks \ hit) \cup updatedTask
                /\ Finish(p, req[p],
                          Response(200, "Task updated successfully",
                                   IF updatedTask = {} THEN NULL
                                   ELSE CHOOSE t \in updatedTask : TRUE,
                                   "updateTask"))
    /\ UNCHANGED <<users, clock, tok, issued>>

\* DELETE /tasks/:id up to the existence check
deleteTaskCheck(p, hdr, taskId) ==
    /\ Ready(p)
    /\ LET gate == authMiddleware(hdr, clock)
           r == TaskRequest("deleteTask", hdr, gate) @@ [taskId |-> taskId]
       IN  IF ~gate.next
           THEN Rejected(p, r, gate)
           ELSE IF Owned(gate.userId, taskId) = {}
           THEN Finish(p, r, Response(404, "Task not found", NULL, "deleteTask"))
           ELSE /\ req' = [req EXCEPT ![p] = r @@ [pc |-> "delete_run"]]
                /\ UNCHANGED out
    /\ UNCHANGED <<users, tasks, clock, tok, issued>>

\* DELETE /tasks/:id, the DELETE and the answer
deleteTaskRun(p) ==
    /\ req[p].pc = "delete_run"
    /\ tasks' = tasks \ Owned(req[p].userId, req[p].taskId)
    /\ Finish(p, req[p], Response(200, "Task deleted successfully", NULL, "deleteTask"))
    /\ UNCHANGED <<users, clock, tok, issued>>

\* Number(s) of a query parameter: the value of a string of digits, NaN otherwise
NaN == -1
RECURSIVE Number(_)
Number(s) ==
    IF Len(s) = 0 THEN 0
    ELSE LET last == SubSeq(s, Len(s), Len(s))
             front == Number(SubSeq(s, 1, Len(s) - 1))
         IN  IF front = NaN \/ ~\E i \in 1 .. 10 : SubSeq(Digits, i, i) = last
             THEN NaN
             ELSE front * 10 + Digit(last)

DefaultPage == "1"
DefaultLimit == "10"
MaxLimit == 100

WithDefault(query, key, default) == IF key \in DOMAIN query THEN query[key] ELSE default

\* getTasksSchema.parse: the coerced query, or invalid
getTasksSchema(query) ==
    LET page == Number(WithDefault(query, "page", DefaultPage))
        limit == Number(WithDefault(query, "limit", DefaultLimit))
        sortBy == WithDefault(query, "sortBy", "createdAt")
        sortOrder == WithDefault(query, "sortOrder", "desc")
    IN  [valid |-> /\ page >= 1
                   /\ limit >= 1 /\ limit <= MaxLimit
                   /\ "status" \in DOMAIN query => query.status \in statusEnum
                   /\ sortBy \in {"dueDate", "createdAt", "title"}
                   /\ sortOrder \in {"asc", "desc"},
         page |-> page, limit |-> limit,
         status |-> IF "status" \in DOMAIN query THEN Some(query.status) ELSE NULL,
         sortBy |-> sortBy, sortOrder |-> sortOrder]

\* the status condition left out
WhereOwnerOnly(t, userId, status) == t.userId = userId

\* and(...whereConditions): the owner, and the status when one is given
WhereConditions(t, userId, status) ==
    t.userId = userId /\ (status # NULL => t.status = status[1])

\* the owner condition left out
MatchingAnyOwner(rows, userId, status) ==
    {t \in rows : status # NULL => t.status = status[1]}

Matching(rows, userId, status) == {t \in rows : WhereConditions(t, userId, status)}

Alphabet == " abcdefghijklmnopqrstuvwxyz"
CharRank(c) == CHOOSE i \in 1 .. Len(Alphabet) : SubSeq(Alphabet, i, i) = c

RECURSIVE TextLess(_, _)
TextLess(a, b) ==
    IF Len(b) = 0 THEN FALSE
    ELSE IF Len(a) = 0 THEN TRUE
    ELSE LET x == CharRank(SubSeq(a, 1, 1))
             y == CharRank(SubSeq(b, 1, 1))
         IN  IF x # y THEN x < y
             ELSE TextLess(SubSeq(a, 2, Len(a)), SubSeq(b, 2, Len(b)))

\* the ORDER BY column; NULL sorts as larger than every value
ColumnLess(a, b, sortBy) ==
    IF sortBy = "dueDate"
    THEN a.dueDate # NULL /\ (b.dueDate = NULL \/ a.dueDate[1] < b.dueDate[1])
    ELSE IF sortBy = "title"
    THEN TextLess(a.title, b.title)
    ELSE a.createdAt < b.createdAt

Precedes(a, b, sortBy, sortOrder) ==
    IF sortOrder = "asc" THEN ColumnLess(a, b, sortBy) ELSE ColumnLess(b, a, sortBy)

Perms(S) ==
    {s \in [1 .. Cardinality(S) -> S] : \A i, j \in DOMAIN s : i # j => s[i] # s[j]}

\* the results ORDER BY allows: rows the column does not tell apart come in
\* any order, and the order may differ from one query to the next
OrderBy(S, sortBy, sortOrder) ==
    {s \in Perms(S) :
        \A i, j \in DOMAIN s : i < j => ~Precedes(s[j], s[i], sortBy, sortOrder)}

Min(a, b) == IF a < b THEN a ELSE b
LimitOffset(s, limit, offset) == SubSeq(s, offset + 1, Min(Len(s), offset + limit))

Ceil(a, b) == (a + b - 1) \div b

\* GET /tasks up to the page query
getTasksSelect(p, hdr, query) ==
    /\ Ready(p)
    /\ LET gate == authMiddleware(hdr, clock)
           r == TaskRequest("getTasks", hdr, gate) @@ [query |-> query]
           q == getTasksSchema(query)
           offset == (q.page - 1) * q.limit
       IN  IF ~gate.next
           THEN Rejected(p, r, gate)
           ELSE IF ~q.valid
           THEN Finish(p, r, Response(400, "Validation error", NULL, "getTasks"))
           ELSE \E ordered \in OrderBy(Matching(tasks, gate.userId, q.status),
                                       q.sortBy, q.sortOrder) :
                  /\ req' = [req EXCEPT ![p] =
                               r @@ [pc |-> "list_count",
                                     userTasks |-> LimitOffset(ordered, q.limit, offset)]]
                  /\ UNCHANGED out
    /\ UNCHANGED <<users, tasks, clock, tok, issued>>

\* GET /tasks, the count query and the answer
getTasksCount(p) ==
    /\ req[p].pc = "list_count"
    /\ LET q == getTasksSchema(req[p].query)
           total == Cardinality(Matching(tasks, req[p].userId, q.status))
           totalPages == Ceil(total, q.limit)
       IN  Finish(p, req[p],
                  Response(200, "",
                           [tasks |-> req[p].userTasks,
                            pagination |->
                              [page |-> q.page, limit |-> q.limit, total |-> total,
                               totalPages |-> totalPages,
                               hasNext |-> q.page < totalPages,
                               hasPrev |-> q.page > 1]],
                           "getTasks"))
    /\ UNCHANGED <<users, tasks, clock, tok, issued>>

Tick ==
    /\ clock < MaxClock
    /\ clock' = clock + 1
    /\ UNCHANGED <<users, tasks, tok, req, out, issued>>

Init ==
    /\ users = {}
    /\ tasks = {}
    /\ clock = 0
    /\ tok = [p \in Procs |-> EmptyToken]
    /\ req = [p \in Procs |-> Idle]
    /\ out = NoExchange
    /\ issued = 0

NextAuth ==
    \/ \E p \in Procs, body \in RegisterBodies : RegisterCheck(p, body)
    \/ \E p \in Procs : RegisterInsert(p)
    \/ \E p \in Procs, body \in RegisterBodies : Login(p, body)

SpecAuth == Init /\ [][NextAuth]_vars
(************************ the task routes, in use **************************)
Account(id, email, password) ==
    [id |-> id, email |-> email, password |-> bcryptHash(password, "s1"), createdAt |-> 0]

\* two accounts registered and both clients logged in, at time 0
InitTasks ==
    /\ users = {Account("u1", "a@x.com", "secret1"), Account("u2", "b@x.com", "secret2")}
    /\ tasks = {}
    /\ clock = 0
    /\ tok \in [Procs -> {generateToken([userId |-> u.id, email |-> u.email], 0) : u \in users}]
    /\ tok["p1"].payload.userId = "u1"
    /\ req = [p \in Procs |-> Idle]
    /\ out = NoExchange
    /\ issued = 0

CreateBodies ==
    {[title |-> "buy milk"],
     [title |-> "call mom", description |-> "soon",
      dueDate |-> "2024-01-20T10:00:00Z", status |-> "completed"]}

UpdateBodies ==
    {[description |-> "soon", dueDate |-> "2024-01-20T10:00:00Z"],
     [title |-> "call mom", status |-> "completed", id |-> "t2", userId |-> "u2",
      createdAt |-> 5],
     [id |-> "t2"],
     [status |-> "done"]}

Known == {TaskIds[i] : i \in 1 .. issued}

NextTasks ==
    \/ \E p \in Procs, body \in CreateBodies : createTask(p, Bearer(tok[p]), body)
    \/ \E p \in Procs, id \in Known : getTaskById(p, Bearer(tok[p]), id)
    \/ \E p \in Procs, id \in Known, body \in UpdateBodies :
            updateTaskCheck(p, Bearer(tok[p]), id, body)
    \/ \E p \in Procs : updateTaskWrite(p)
    \/ \E p \in Procs, id \in Known : deleteTaskCheck(p, Bearer(tok[p]), id)
    \/ \E p \in Procs : deleteTaskRun(p)

SpecTasks == InitTasks /\ [][NextTasks]_vars

(***************************** listing, in use *****************************)
ListQueries ==
    {[page |-> "1", limit |-> "1"],
     [page |-> "2", limit |-> "1", sortBy |-> "title", sortOrder |-> "asc"],
     [status |-> "completed"],
     [page |-> "0"]}

NextList ==
    \/ \E p \in Procs : createTask(p, Bearer(tok[p]), [title |-> "buy milk"])
    \/ \E p \in Procs, id \in Known :
            updateTaskCheck(p, Bearer(tok[p]), id, [status |-> "completed"])
    \/ \E p \in Procs : updateTaskWrite(p)
    \/ \E p \in Procs, id \in Known : deleteTaskCheck(p, Bearer(tok[p]), id)
    \/ \E p \in Procs : deleteTaskRun(p)
    \/ \E p \in Procs, query \in ListQueries : getTasksSelect(p, Bearer(tok[p]), query)
    \/ \E p \in Procs : getTasksCount(p)

SpecList == InitTasks /\ [][NextList]_vars

\* the same store traffic with client "p1" as the only one that lists
NextScope ==
    \/ \E p \in Procs : createTask(p, Bearer(tok[p]), [title |-> "buy milk"])
    \/ \E p \in Procs, id \in Known :
            updateTaskCheck(p, Bearer(tok[p]), id, [status |-> "completed"])
    \/ \E p \in Procs : updateTaskWrite(p)
    \/ \E p \in Procs, id \in Known : deleteTaskCheck(p, Bearer(tok[p]), id)
    \/ \E p \in Procs : deleteTaskRun(p)
    \/ \E query \in ListQueries : getTasksSelect("p1", Bearer(tok["p1"]), query)
    \/ getTasksCount("p1")

SpecScope == InitTasks /\ [][NextScope]_vars

(************************* the access gate, in use *************************)
\* two accounts registered, nobody logged in yet
InitGate ==
    /\ users = {Account("u1", "a@x.com", "secret1"), Account("u2", "b@x.com", "secret2")}
    /\ tasks = {}
    /\ clock = 0
    /\ tok = [p \in Procs |-> EmptyToken]
    /\ req = [p \in Procs |-> Idle]
    /\ out = NoExchange
    /\ issued = 0

LoginBodies ==
    {[email |-> "a@x.com", password |-> "secret1"],
     [email |-> "b@x.com", password |-> "secret2"],
     [email |-> "b@x.com", password |-> "secret1"]}

\* a token signed with a key that is not the server's
ForgedToken == jwtSign([userId |-> "u1", email |-> "a@x.com"], "guess", MaxClock)
\* a token the server's key signed, without the userId claim
AnonymousToken == jwtSign([email |-> "a@x.com"], JWT_SECRET, 0)
\* the client's own token with the userId of the payload rewritten
Tampered(token) ==
    IF token.segments # 3 THEN MalformedToken
    ELSE [token EXCEPT !.payload.userId = CHOOSE id \in UserIds : id # @]

Headers(p) ==
    {NoHeader,
     [present |-> TRUE, prefix |-> "Basic d", rest |-> EmptyToken],
     Bearer(EmptyToken), Bearer(MalformedToken), Bearer(ForgedToken),
     Bearer(AnonymousToken), Bearer(Tampered(tok[p])), Bearer(tok[p])}

\* one client tries every kind of header on every task route
NextGate ==
    \/ \E body \in LoginBodies : Login("p1", body)
    \/ \E hdr \in Headers("p1") : createTask("p1", hdr, [title |-> "buy milk"])
    \/ \E hdr \in Headers("p1"), id \in Known : getTaskById("p1", hdr, id)
    \/ \E hdr \in Headers("p1"), id \in Known :
            updateTaskCheck("p1", hdr, id, [status |-> "completed"])
    \/ updateTaskWrite("p1")
    \/ \E hdr \in Headers("p1"), id \in Known : deleteTaskCheck("p1", hdr, id)
    \/ deleteTaskRun("p1")
    \/ \E hdr \in Headers("p1") : getTasksSelect("p1", hdr, [limit |-> "1"])
    \/ getTasksCount("p1")

SpecGate == InitGate /\ [][NextGate]_vars

(*************************** tokens over time ******************************)
\* one client logs in, waits and uses its token; the other stays idle
NextExpiry ==
    \/ \E body \in LoginBodies : Login("p1", body)
    \/ Tick
    \/ createTask("p1", Bearer(tok["p1"]), [title |-> "buy milk"])
    \/ \E id \in Known : getTaskById("p1", Bearer(tok["p1"]), id)

SpecExpiry == InitGate /\ [][NextExpiry]_vars
(**************************** paging, in use *******************************)
\* a store of up to MaxTasks tasks, created one a day, that nothing modifies
InitPage ==
    /\ users = {Account("u1", "a@x.com", "secret1"), Account("u2", "b@x.com", "secret2")}
    /\ issued \in 0 .. MaxTasks
    /\ \E owner \in [1 .. issued -> UserIds], body \in [1 .. issued -> CreateBodies] :
          tasks = {InsertValues(TaskIds[i], owner[i], Strip(body[i]), i - 1) : i \in 1 .. issued}
    /\ clock = issued
    /\ tok = [p \in Procs |-> generateToken([userId |-> "u1", email |-> "a@x.com"], clock)]
    /\ req = [p \in Procs |-> Idle]
    /\ out = NoExchange

PageQueries ==
    [page : {"1", "2"}, limit : {"1", "2"}, sortBy : {"title", "dueDate"}, sortOrder : {"asc"}]
    \cup [page : {"1", "2"}, limit : {"1", "2"}, status : {"pending"}]

NextPage ==
    \/ \E p \in Procs, query \in PageQueries : getTasksSelect(p, Bearer(tok[p]), query)
    \/ \E p \in Procs : getTasksCount(p)

SpecPage == InitPage /\ [][NextPage]_vars

(******************************* claims ************************************)
TaskOps == {"createTask", "getTasks", "getTaskById", "updateTask", "deleteTask"}
ByIdOps == {"getTaskById", "updateTask", "deleteTask"}
NotFound(op) == Response(404, "Task not found", NULL, op)

\* an exchange completes in this step
Answered == out' # out
\* the request answered in this step names a task of another account
Foreign ==
    /\ out'.req.op \in ByIdOps /\ out'.req.userId # NoUser
    /\ \E T \in tasks : T.id = out'.req.taskId /\ T.userId # out'.req.userId
\* a task is changed or removed only by the write of a request that has its
\* owner's identity bound, and only such a request gets past the lookup
OnlyOwnerWrites ==
    /\ \A T \in tasks : T \notin tasks' =>
          \E p \in Procs :
              /\ req[p] # Idle /\ req'[p] = Idle /\ req[p].op \in {"updateTask", "deleteTask"}
              /\ req[p].userId = T.userId /\ req[p].taskId = T.id
    /\ \A p \in Procs :
          (req'[p] # req[p] /\ req'[p] # Idle /\ req'[p].op \in {"updateTask", "deleteTask"}) =>
              \A T \in tasks : T.id = req'[p].taskId => T.userId = req'[p].userId

\* C1 as stated: a get, update or delete request authenticated as B on the id
\* of a task of another account is always answered 404 "Task not found"
\* without data, and the task stays in the store unchanged
C1_Original ==
    [][/\ OnlyOwnerWrites
       /\ (Answered /\ Foreign) => out'.resp = NotFound(out'.req.op)]_vars

\* C1: a get, update or delete request authenticated as B on the id of a task
\* of another account is answered without data: 400 "Validation error" for an
\* update whose body fails validation, 404 "Task not found" otherwise; and the
\* task stays in the store unchanged
C1_OwnershipIsolation ==
    [][/\ OnlyOwnerWrites
       /\ (Answered /\ Foreign) =>
             out'.resp = IF out'.req.op = "updateTask" /\ ~Shape(out'.req.body)
                         THEN Response(400, "Validation error", NULL, "updateTask")
                         ELSE NotFound(out'.req.op)]_vars

C1_Witness ==
    /\ out.req.op = "deleteTask" /\ out.resp.status = 404
    /\ \E T \in tasks : T.id = out.req.taskId /\ T.userId # out.req.userId

\* C2: the users table never holds two accounts with one email, and no step
\* changes or removes an account once it is stored
C2_EmailUniqueness ==
    /\ [](\A u, v \in users : u.email = v.email => u = v)
    /\ [][\A u \in users : u \in users']_vars

\* a register request lost the race: its insert was refused by the constraint
C2_Witness ==
    /\ out.req.op = "register" /\ out.resp.status = 500
    /\ \E u \in users : u.email = out.req.body.email /\ ~bcryptCompare(out.req.body.password, u.password)

\* C3: every valid register request, whatever runs beside it, answers either
\* success, with its account in the table, or 409 "User already exists"
C3_ConcurrentRegisterOutcome ==
    (out.req.op = "register" /\ registerSchema(out.req.body)) =>
        \/ /\ out.resp.status = 200
           /\ \E u \in users : u.email = out.req.body.email
        \/ /\ out.resp.status = 409
           /\ out.resp.message = "User already exists"

\* what the gate must refuse, stated on the header and the time of the request
BadCredential(hdr, at) ==
    \/ ~hdr.present
    \/ hdr.prefix # "Bearer "
    \/ hdr.rest.segments # 3
    \/ hdr.rest.sig # [key |-> JWT_SECRET, over |-> hdr.rest.payload]
    \/ at >= hdr.rest.payload.exp
    \/ "userId" \notin DOMAIN hdr.rest.payload

\* C4: a task request with a missing or non-Bearer header, an empty token, a
\* token that fails verification or one without userId ends with 401, runs no
\* task handler and leaves both tables unchanged; every other task request
\* runs its handler with the userId of the verified token bound
C4_GateOrdering ==
    [][/\ (Answered /\ out'.req.op \in TaskOps) =>
             IF BadCredential(out'.req.hdr, out'.req.at)
             THEN /\ out'.req.userId = NoUser
                  /\ out'.resp.status = 401 /\ out'.resp.handler = "none"
                  /\ tasks' = tasks /\ users' = users
                  /\ \A p \in Procs : req[p] = Idle \/ req'[p] = req[p]
             ELSE /\ out'.req.userId = out'.req.hdr.rest.payload.userId
                  /\ out'.resp.handler = out'.req.op
       /\ \A p \in Procs :
             (req'[p] # req[p] /\ req'[p] # Idle) =>
                 /\ ~BadCredential(req'[p].hdr, req'[p].at)
                 /\ req'[p].userId = req'[p].hdr.rest.payload.userId]_vars

C4_Witness ==
    /\ out.req.op = "deleteTask" /\ out.req.hdr = Bearer(ForgedToken)
    /\ out.resp.status = 401 /\ out.req.taskId \in {T.id : T \in tasks}

\* C5: every task request whose token fails verification or lacks userId is
\* answered 401 with the one message "Invalid or expired token"
C5_UniformRejection ==
    ( /\ out.req.op \in TaskOps
      /\ out.req.hdr.present /\ out.req.hdr.prefix = "Bearer "
      /\ out.req.hdr.rest.segments # 0
      /\ BadCredential(out.req.hdr, out.req.at) )
    => (out.resp.status = 401 /\ out.resp.message = "Invalid or expired token")

\* C6: the token a successful login as account A returns passes the gate at
\* every time before its expiry and binds A's id; and a task created with a
\* client's login token before its expiry is stored with the id of that
\* token's account as its userId
C6_CredentialRoundTrip ==
    [][/\ (Answered /\ out'.req.op = "login" /\ out'.resp.status = 200) =>
             \E A \in users :
                 /\ A.email = out'.req.body.email
                 /\ tok'[out'.client] = out'.resp.data
                 /\ out'.resp.data.payload.userId = A.id
                 /\ \A now \in clock .. (clock + Window - 1) :
                       LET gate == authMiddleware(Bearer(out'.resp.data), now)
                       IN  gate.next /\ gate.userId = A.id
       /\ ( /\ Answered /\ out'.req.op = "createTask"
            /\ tok[out'.client].segments = 3
            /\ out'.req.hdr = Bearer(tok[out'.client])
            /\ out'.req.at < tok[out'.client].payload.exp
            /\ createTaskSchema(out'.req.body) ) =>
               /\ out'.resp.status = 201
               /\ out'.resp.data.userId = tok[out'.client].payload.userId
               /\ out'.resp.data \notin tasks
               /\ tasks' = tasks \cup {out'.resp.data}]_vars

\* a task created with the token of a login made some days before
C6_Witness ==
    /\ out.req.op = "createTask" /\ out.resp.status = 201
    /\ out.req.hdr.rest.payload.userId = "u2"
    /\ out.req.at > out.req.hdr.rest.payload.iat
    /\ \E T \in tasks : T.userId = "u2" /\ T.createdAt = out.req.at

\* a token the server's key signed for an account
Issued(token) ==
    /\ token.segments = 3
    /\ token.sig = [key |-> JWT_SECRET, over |-> token.payload]
    /\ "userId" \in DOMAIN token.payload

\* C7: a task request presenting a token issued at time t at a time later than
\* t + 7 days ends with 401 and runs no task handler; the clock never goes
\* back, and a token refused as expired is refused again when presented next
C7_Expiry ==
    /\ []( ( /\ out.req.op \in TaskOps /\ out.req.hdr.present
             /\ Issued(out.req.hdr.rest)
             /\ out.req.at > out.req.hdr.rest.payload.iat + Window )
           => (out.resp.status = 401 /\ out.resp.handler = "none") )
    /\ [][/\ clock' >= clock
          /\ ( /\ out.req.op \in TaskOps /\ out.req.hdr.present
               /\ Issued(out.req.hdr.rest) /\ out.resp.status = 401
               /\ Answered /\ out'.req.op \in TaskOps
               /\ out'.req.hdr = out.req.hdr )
             => (out'.resp.status = 401 /\ out'.resp.handler = "none")]_vars

C7_Witness ==
    /\ out.req.op = "createTask" /\ Issued(out.req.hdr.rest)
    /\ out.req.at > out.req.hdr.rest.payload.iat + Window
    /\ out.resp.status = 401 /\ tasks # {}
\* the rows the query is about, stated on the row
MatchesFilter(T, userId, query) ==
    T.userId = userId /\ ("status" \in DOMAIN query => T.status = query.status)
Max(a, b) == IF a > b THEN a ELSE b
Occurrences(s, x) == Cardinality({i \in DOMAIN s : s[i] = x})

\* C8: with the store unmodified, the rows of page 1 and page 2 of one
\* listing whose matching rows fill exactly two pages hold every matching row
\* exactly once, also when rows tie or are NULL on the sort column
C8_PaginationConsistency ==
    \A p, q \in Procs :
        ( /\ req[p] # Idle /\ req[p].op = "getTasks"
          /\ req[q] # Idle /\ req[q].op = "getTasks"
          /\ req[p].userId = req[q].userId
          /\ req[p].query.page = "1" /\ req[q].query.page = "2"
          /\ [req[q].query EXCEPT !.page = "1"] = req[p].query )
        => LET M == {T \in tasks : MatchesFilter(T, req[p].userId, req[p].query)}
               L == Number(req[p].query.limit)
               both == req[p].userTasks \o req[q].userTasks
           IN  (Cardinality(M) > L /\ Cardinality(M) <= 2 * L) =>
                   /\ Len(both) = Cardinality(M)
                   /\ \A T \in M : Occurrences(both, T) = 1

\* what a list response must say about its rows and the count, given the rows
\* M that match when the count is taken
Metadata(data, query, M) ==
    LET pg == data.pagination
        page == IF "page" \in DOMAIN query THEN Number(query.page) ELSE 1
        limit == IF "limit" \in DOMAIN query THEN Number(query.limit) ELSE 10
    IN  /\ pg.page = page /\ pg.limit = limit
        /\ pg.total = Cardinality(M)
        /\ pg.totalPages * limit >= pg.total /\ (pg.totalPages - 1) * limit < pg.total
        /\ pg.hasNext = (page < pg.totalPages)
        /\ pg.hasPrev = (page > 1)

\* rows are one page of the rows M: distinct rows of M, as many as the page holds
PageOf(rows, query, M) ==
    LET page == IF "page" \in DOMAIN query THEN Number(query.page) ELSE 1
        limit == IF "limit" \in DOMAIN query THEN Number(query.limit) ELSE 10
    IN  /\ \A i \in DOMAIN rows : rows[i] \in M
        /\ \A i, j \in DOMAIN rows : i # j => rows[i] # rows[j]
        /\ Len(rows) = Min(limit, Max(0, Cardinality(M) - (page - 1) * limit))

\* C9 as stated: the metadata of every list response is right for the rows
\* matching when the answer is made, and the returned rows are a page of those
\* same rows, whatever other requests did while the list request ran
C9_Original ==
    [][(Answered /\ out'.req.op = "getTasks" /\ out'.resp.status = 200) =>
          LET M == {T \in tasks : MatchesFilter(T, out'.req.userId, out'.req.query)}
          IN  /\ Metadata(out'.resp.data, out'.req.query, M)
              /\ PageOf(out'.resp.data.tasks, out'.req.query, M)]_vars

\* C9: the page query returns a page of the rows that match owner and status
\* when it runs; the response carries those rows, and total, totalPages,
\* hasNext and hasPrev computed from the rows that match the same owner and
\* status when the count query runs
C9_PaginationMetadata ==
    [][/\ \A p \in Procs :
             (req'[p] # req[p] /\ req'[p] # Idle /\ req'[p].op = "getTasks") =>
                 PageOf(req'[p].userTasks, req'[p].query,
                        {T \in tasks : MatchesFilter(T, req'[p].userId, req'[p].query)})
       /\ (Answered /\ out'.req.op = "getTasks" /\ out'.resp.status = 200) =>
             /\ Metadata(out'.resp.data, out'.req.query,
                         {T \in tasks : MatchesFilter(T, out'.req.userId, out'.req.query)})
             /\ out'.resp.data.tasks = req[out'.client].userTasks]_vars

\* a filtered list answered while a task was created beside it
C9_Witness ==
    /\ out.req.op = "getTasks" /\ out.resp.status = 200
    /\ "status" \in DOMAIN out.req.query
    /\ out.resp.data.pagination.total = 1 /\ Len(out.resp.data.tasks) = 0
    /\ Cardinality(tasks) = 2

\* the row an update must leave behind: the supplied fields, the rest as before
Updated(T, body) ==
    [id |-> T.id, userId |-> T.userId, createdAt |-> T.createdAt,
     title |-> IF "title" \in DOMAIN body THEN body.title ELSE T.title,
     description |-> IF "description" \in DOMAIN body
                     THEN Some(body.description) ELSE T.description,
     dueDate |-> IF "dueDate" \in DOMAIN body THEN Some(Date(body.dueDate)) ELSE T.dueDate,
     status |-> IF "status" \in DOMAIN body THEN body.status ELSE T.status]

\* C10: an update answered 200 leaves the task it names, when its owner asks,
\* with the fields of the body at the supplied values and every other field,
\* id, userId and createdAt included, as before, answers with that row, and
\* leaves every other task as it was; no other answer of an update changes a task
C10_PartialUpdateFrame ==
    [][(Answered /\ out'.req.op = "updateTask") =>
          LET target == {T \in tasks : T.id = out'.req.taskId /\ T.userId = out'.req.userId}
          IN  IF out'.resp.status = 200
              THEN /\ tasks' = (tasks \ target) \cup {Updated(T, out'.req.body) : T \in target}
                   /\ \A T \in target : out'.resp.data = Updated(T, out'.req.body)
              ELSE tasks' = tasks]_vars

C10_Witness ==
    /\ out.req.op = "updateTask" /\ out.resp.status = 200
    /\ "userId" \in DOMAIN out.req.body /\ out.req.body.userId # out.req.userId
    /\ out.resp.data \in tasks /\ out.resp.data.description # NULL
    /\ Cardinality(tasks) = 2

\* the pages the page query may return to userId on a store, and the count the
\* count query returns on it
ListOutcomes(store, userId, query) ==
    LET q == getTasksSchema(query)
    IN  {LimitOffset(ordered, q.limit, (q.page - 1) * q.limit) :
            ordered \in OrderBy(Matching(store, userId, q.status), q.sortBy, q.sortOrder)}
CountOutcome(store, userId, query) ==
    Cardinality(Matching(store, userId, getTasksSchema(query).status))
OwnedBy(userId) == {T \in tasks : T.userId = userId}

\* C11: every row of a list response is owned by the caller and has the status
\* asked for, total counts the caller's rows of that status only, and the rows
\* and the count a listing may return are those it may return on the store
\* that holds the caller's tasks alone, so two stores with the same tasks of
\* the caller give the same results
C11_OwnerScopedListing ==
    [][/\ \A p \in Procs :
             (req[p] = Idle /\ req'[p] # Idle /\ req'[p].op = "getTasks") =>
                 LET r == req'[p]
                 IN  /\ \A i \in DOMAIN r.userTasks :
                             MatchesFilter(r.userTasks[i], r.userId, r.query)
                     /\ r.userTasks \in ListOutcomes(OwnedBy(r.userId), r.userId, r.query)
                     /\ ListOutcomes(tasks, r.userId, r.query)
                             = ListOutcomes(OwnedBy(r.userId), r.userId, r.query)
       /\ (Answered /\ out'.req.op = "getTasks" /\ out'.resp.status = 200) =>
             LET r == out'.req
                 data == out'.resp.data
             IN  /\ \A i \in DOMAIN data.tasks : MatchesFilter(data.tasks[i], r.userId, r.query)
                 /\ data.pagination.total
                         = Cardinality({T \in tasks : MatchesFilter(T, r.userId, r.query)})
                 /\ data.pagination.total = CountOutcome(OwnedBy(r.userId), r.userId, r.query)
                 /\ Metadata(data, r.query,
                             {T \in OwnedBy(r.userId) : MatchesFilter(T, r.userId, r.query)})]_vars

\* a status-filtered list answered with the caller's one completed task while
\* another account holds a completed task too
C11_Witness ==
    /\ out.req.op = "getTasks" /\ out.resp.status = 200
    /\ "status" \in DOMAIN out.req.query
    /\ Len(out.resp.data.tasks) = 1 /\ out.resp.data.pagination.total = 1
    /\ \E T \in tasks : T.userId # out.req.userId /\ T.status = out.req.query.status

\* C12: an update that passed the gate with a valid body naming at least one
\* task field is answered either 404 or 200 with the updated row of the task
\* it names, also when a delete of that task runs beside it
C12_UpdateResultUnderInterleaving ==
    [][( /\ Answered /\ out'.req.op = "updateTask" /\ out'.resp.handler = "updateTask"
         /\ updateTaskSchema(out'.req.body)
         /\ DOMAIN Strip(out'.req.body) # {} ) =>
            \/ out'.resp.status = 404
            \/ /\ out'.resp.status = 200
               /\ out'.resp.data # NULL
               /\ out'.resp.data \in tasks'
               /\ out'.resp.data.id = out'.req.taskId]_vars
====
